---- MODULE Spec2Model ----
(***************************************************************************)
(* The vote path of PollRooms (src/server.js over the SQLite schema of     *)
(* src/database.js): poll creation, the poll read, the vote request       *)
(* handler with its anti-abuse check canVote, option addition and soft     *)
(* deletion.                                                               *)
(*                                                                         *)
(* better-sqlite3 is synchronous and no handler awaits, so every request   *)
(* handler runs to completion as one step.  Every statement runs in        *)
(* autocommit mode (no handler opens a transaction), so a statement that   *)
(* throws leaves the writes of the statements before it in place.          *)
(*                                                                         *)
(* A database is a record d of its tables.  The votes table is kept as one *)
(* sequence of rows per (poll_id, user_id), in rowid order: every query of *)
(* the program either filters on that pair or is an aggregate (COUNT) that *)
(* does not depend on row order.  Columns that no statement reads back     *)
(* (user_agent, first_seen, last_seen, created_at, require_auth, which is  *)
(* always 1, the vote_count of a device row) are left out:                 *)
(* device_fingerprints is the set of its (user_id, fingerprint) rows.      *)
(***************************************************************************)
EXTENDS Integers, Sequences, FiniteSets, TLC

\* ---------------------------------------------------------------- bounds
NUsers == 2
NFingerprints == 2
NIps == 1
MaxPolls == 1
MaxOptions == 3
MaxIds == 2
MaxTicks == 2
NClients == 2

\* ------------------------------------------------------- program constants
MaxNewVoteActions == 5
MaxChangeVoteActions == 10
FiveMinutes == 5 * 60 * 1000

\* Time passes in steps of half the rate window.
TickMs == FiveMinutes \div 2

\* What a request leaves out (undefined in the handler): no fingerprint is
\* falsy, no option id is no rowid of poll_options (AUTOINCREMENT starts at 1).
NoFingerprint == 0
NoOptionId == 0
NoPoll == [question |-> "", poll_type |-> "none", allow_multiple |-> 0, created_by |-> 0]
NoEvent == <<>>
NoUser == 0
NoResponse == [op |-> "none", status |-> 0, reason |-> "none"]

Users == 1 .. NUsers
Fingerprints == 1 .. NFingerprints
IpAddresses == 1 .. NIps
PollIds == 1 .. MaxPolls
OptionIds == 1 .. MaxOptions
Clients == 1 .. NClients

VARIABLES
    polls,                \* table polls: row i is the poll with id i
    poll_options,         \* table poll_options: row i is the option with id i
    votes,                \* table votes: <<poll_id, user_id>> -> rows in rowid order
    device_fingerprints,  \* table device_fingerprints: its <<user_id, fingerprint>> rows
    now,                  \* Date.now()
    res,                  \* the response of the last request
    event,                \* what the last request emitted through socket.io, in order
    accepted,             \* <<poll_id, ip>> -> when its latest votes of one kind were accepted
    rooms,                \* socket -> the polls whose room poll-<id> it is in
    delivered             \* socket -> the events the last step delivered to it

vars == <<polls, poll_options, votes, device_fingerprints, now, res, event, accepted,
          rooms, delivered>>

\* The database as the handlers see it.
Db == [polls |-> polls, poll_options |-> poll_options, votes |-> votes,
       device_fingerprints |-> device_fingerprints]

InitFor(users, ips) ==
    /\ polls = <<>>
    /\ poll_options = <<>>
    /\ votes = [k \in PollIds \X users |-> <<>>]
    /\ device_fingerprints = {}
    /\ now = 0
    /\ res = NoResponse
    /\ event = NoEvent
    /\ accepted = [k \in PollIds \X ips |-> <<>>]
    /\ rooms = [c \in Clients |-> {}]
    /\ delivered = [c \in Clients |-> <<>>]

Init == InitFor(Users, IpAddresses)

\* ------------------------------------------------------------ statements
\* The rows of table votes, each named <<<<poll_id, user_id>>, position>>,
\* and those of one poll.
VoteRows(vs) == UNION {{<<k, i>> : i \in DOMAIN vs[k]} : k \in DOMAIN vs}

Row(vs, r) == vs[r[1]][r[2]]

PollVoteRows(vs, pollId) == {r \in VoteRows(vs) : r[1][1] = pollId}

getPoll(d, pollId) ==
    IF pollId \in DOMAIN d.polls THEN d.polls[pollId] ELSE NoPoll

\* A bug getUserVotes could have: no row found.
getUserVotes_None(d, pollId, userId) == <<>>

getUserVotes(d, pollId, userId) == d.votes[<<pollId, userId>>]

hasUserVoted(d, pollId, userId) == Len(d.votes[<<pollId, userId>>])

hasDeviceVoted(d, pollId, deviceFingerprint) ==
    Cardinality({r \in PollVoteRows(d.votes, pollId) :
                   Row(d.votes, r).device_fingerprint = deviceFingerprint})

getRecentVotesFromIP(d, pollId, ipAddress, since) ==
    Cardinality({r \in PollVoteRows(d.votes, pollId) :
                   /\ Row(d.votes, r).ip_address = ipAddress
                   /\ Row(d.votes, r).voted_at > since})

createOption(d, pollId, optionText) ==
    [d EXCEPT !.poll_options =
        Append(@, [poll_id |-> pollId, option_text |-> optionText,
                   vote_count |-> 0, is_deleted |-> 0])]

getOptions(d, pollId) ==
    SelectSeq([i \in DOMAIN d.poll_options |-> [id |-> i, row |-> d.poll_options[i]]],
              LAMBDA o : o.row.poll_id = pollId /\ o.row.is_deleted = 0)

\* A bug deleteOption could have: the votes for the option deleted with it.
deleteOption_Cascade(d, id) ==
    IF id \in DOMAIN d.poll_options
    THEN [d EXCEPT !.poll_options[id].is_deleted = 1,
                   !.votes = [k \in DOMAIN d.votes |->
                                 SelectSeq(d.votes[k], LAMBDA v : v.option_id # id)]]
    ELSE d

deleteOption(d, id) ==
    IF id \in DOMAIN d.poll_options
    THEN [d EXCEPT !.poll_options[id].is_deleted = 1]
    ELSE d

\* A bug incrementVoteCount could have: the count written from a value read
\* before another request's increment (a lost update).
incrementVoteCount_Lost(d, id) ==
    IF id \in DOMAIN d.poll_options
    THEN [d EXCEPT !.poll_options[id].vote_count = 1]
    ELSE d

incrementVoteCount(d, id) ==
    IF id \in DOMAIN d.poll_options
    THEN [d EXCEPT !.poll_options[id].vote_count = @ + 1]
    ELSE d

decrementVoteCount(d, id) ==
    IF id \in DOMAIN d.poll_options /\ d.poll_options[id].vote_count > 0
    THEN [d EXCEPT !.poll_options[id].vote_count = @ - 1]
    ELSE d

\* A bug removeUserVotes could have: a WHERE clause that matches no row.
removeUserVotes_Keeps(d, pollId, userId) == d

\* A bug removeUserVotes could have: a WHERE clause without the user_id.
removeUserVotes_WholePoll(d, pollId, userId) ==
    [d EXCEPT !.votes = [k \in DOMAIN d.votes |->
                            IF k[1] = pollId THEN <<>> ELSE d.votes[k]]]

removeUserVotes(d, pollId, userId) ==
    [d EXCEPT !.votes[<<pollId, userId>>] = <<>>]

\* recordVote throws when option_id is no row of poll_options (the FOREIGN KEY
\* of votes.option_id, enforced by better-sqlite3) or is not given (NOT NULL).
recordVoteThrows(d, id) == id \notin DOMAIN d.poll_options

recordVote(d, pollId, id, userId, deviceFingerprint, ipAddress, timestamp) ==
    [d EXCEPT !.votes[<<pollId, userId>>] =
        Append(@, [option_id |-> id, device_fingerprint |-> deviceFingerprint,
                   ip_address |-> ipAddress, voted_at |-> timestamp])]

\* An existing row has its last_seen and vote_count updated; else a row is
\* inserted.
recordDeviceFingerprint(d, userId, fingerprint) ==
    IF <<userId, fingerprint>> \in d.device_fingerprints THEN d
    ELSE [d EXCEPT !.device_fingerprints = @ \cup {<<userId, fingerprint>>}]

\* A bug getPollStats could have: the two first columns taken for each other.
getPollStats_Swapped(d, pollId) ==
    LET rows == PollVoteRows(d.votes, pollId)
    IN [unique_voters |-> Cardinality(rows),
        total_votes |-> Cardinality({r[1][2] : r \in rows}),
        unique_devices |->
            Cardinality({Row(d.votes, r).device_fingerprint : r \in rows})]

\* COUNT(DISTINCT user_id), COUNT(*) and COUNT(DISTINCT device_fingerprint)
\* over the rows of the poll.
getPollStats(d, pollId) ==
    LET rows == PollVoteRows(d.votes, pollId)
    IN [unique_voters |-> Cardinality({r[1][2] : r \in rows}),
        total_votes |-> Cardinality(rows),
        unique_devices |->
            Cardinality({Row(d.votes, r).device_fingerprint : r \in rows})]

\* ------------------------------------------------------------------ canVote
\* A bug canVote could have: the ceiling of vote changes used for every vote.
canVote_ChangeCeiling(d, t, pollId, userId, deviceFingerprint, ipAddress, isChangingVote) ==
    IF ~isChangingVote /\ hasUserVoted(d, pollId, userId) > 0
    THEN [allowed |-> FALSE, reason |-> "user already voted"]
    ELSE IF ~isChangingVote /\ hasDeviceVoted(d, pollId, deviceFingerprint) > 0
    THEN [allowed |-> FALSE, reason |-> "device already used"]
    ELSE IF getRecentVotesFromIP(d, pollId, ipAddress, t - FiveMinutes)
              >= MaxChangeVoteActions
    THEN [allowed |-> FALSE, reason |-> "rate limited"]
    ELSE [allowed |-> TRUE, reason |-> "none"]

\* A bug canVote could have: the rate check made before the device check.
canVote_RateFirst(d, t, pollId, userId, deviceFingerprint, ipAddress, isChangingVote) ==
    IF ~isChangingVote /\ hasUserVoted(d, pollId, userId) > 0
    THEN [allowed |-> FALSE, reason |-> "user already voted"]
    ELSE IF getRecentVotesFromIP(d, pollId, ipAddress, t - FiveMinutes)
              >= (IF isChangingVote THEN MaxChangeVoteActions ELSE MaxNewVoteActions)
    THEN [allowed |-> FALSE, reason |-> "rate limited"]
    ELSE IF ~isChangingVote /\ hasDeviceVoted(d, pollId, deviceFingerprint) > 0
    THEN [allowed |-> FALSE, reason |-> "device already used"]
    ELSE [allowed |-> TRUE, reason |-> "none"]

\* t is Date.now().
canVote(d, t, pollId, userId, deviceFingerprint, ipAddress, isChangingVote) ==
    IF ~isChangingVote /\ hasUserVoted(d, pollId, userId) > 0
    THEN [allowed |-> FALSE, reason |-> "user already voted"]
    ELSE IF ~isChangingVote /\ hasDeviceVoted(d, pollId, deviceFingerprint) > 0
    THEN [allowed |-> FALSE, reason |-> "device already used"]
    ELSE LET fiveMinutesAgo == t - FiveMinutes
             recentVotes == getRecentVotesFromIP(d, pollId, ipAddress, fiveMinutesAgo)
             maxActions == IF isChangingVote THEN MaxChangeVoteActions
                           ELSE MaxNewVoteActions
         IN IF recentVotes >= maxActions
            THEN [allowed |-> FALSE, reason |-> "rate limited"]
            ELSE [allowed |-> TRUE, reason |-> "none"]

\* ------------------------------------------------ GET /api/polls/:pollId
\* A bug GetPollHandler could have: the viewer recorded as a device user.
GetPollHandler_Records(d, pollId, viewer) ==
    [db |-> recordDeviceFingerprint(d, viewer, 1),
     res |-> [op |-> "getPoll", status |-> 404, reason |-> "Poll not found"],
     event |-> NoEvent]

\* A bug GetPollHandler could have: every viewer taken as one without a
\* session.
GetPollHandler_NoSession(d, pollId, viewer) ==
    IF getPoll(d, pollId) = NoPoll
    THEN [db |-> d,
          res |-> [op |-> "getPoll", status |-> 404, reason |-> "Poll not found"],
          event |-> NoEvent]
    ELSE [db |-> d,
          res |-> [op |-> "getPoll", status |-> 200, reason |-> "none",
                   poll |-> [id |-> pollId, question |-> getPoll(d, pollId).question,
                             poll_type |-> getPoll(d, pollId).poll_type,
                             allow_multiple |-> getPoll(d, pollId).allow_multiple],
                   options |-> getOptions(d, pollId),
                   hasVoted |-> FALSE,
                   votedOptionIds |-> <<>>,
                   stats |-> [uniqueVoters |-> getPollStats(d, pollId).unique_voters,
                              totalVotes |-> getPollStats(d, pollId).total_votes,
                              uniqueDevices |-> getPollStats(d, pollId).unique_devices]],
          event |-> NoEvent]

\* viewer is req.user.id, or NoUser for a request without a session.
GetPollHandler(d, pollId, viewer) ==
    IF getPoll(d, pollId) = NoPoll
    THEN [db |-> d,
          res |-> [op |-> "getPoll", status |-> 404, reason |-> "Poll not found"],
          event |-> NoEvent]
    ELSE LET poll == getPoll(d, pollId)
             userVotes == IF viewer # NoUser THEN getUserVotes(d, pollId, viewer)
                          ELSE <<>>
             stats == getPollStats(d, pollId)
         IN [db |-> d,
             res |-> [op |-> "getPoll", status |-> 200, reason |-> "none",
                      poll |-> [id |-> pollId, question |-> poll.question,
                                poll_type |-> poll.poll_type,
                                allow_multiple |-> poll.allow_multiple],
                      options |-> getOptions(d, pollId),
                      hasVoted |-> Len(userVotes) > 0,
                      votedOptionIds |->
                          [i \in DOMAIN userVotes |-> userVotes[i].option_id],
                      stats |-> [uniqueVoters |-> stats.unique_voters,
                                 totalVotes |-> stats.total_votes,
                                 uniqueDevices |-> stats.unique_devices]],
             event |-> NoEvent]

\* ------------------------------------------- POST /api/polls/:pollId/vote
\* The ids the handler inserts: the list only on a multiple-choice poll that
\* was sent one (an empty array is truthy), else the single optionId.
\* A bug IdsToVote could have: the list taken whatever the poll's type.
IdsToVote_AnyPoll(poll, body) ==
    IF "optionIds" \in DOMAIN body THEN body.optionIds
    ELSE IF "optionId" \in DOMAIN body THEN <<body.optionId>>
    ELSE <<NoOptionId>>

IdsToVote(poll, body) ==
    IF poll.allow_multiple = 1 /\ "optionIds" \in DOMAIN body THEN body.optionIds
    ELSE IF "optionId" \in DOMAIN body THEN <<body.optionId>>
    ELSE <<NoOptionId>>

\* forEach(decrementVoteCount) over the previous votes, then removeUserVotes.
RECURSIVE DecrementAll(_, _)
DecrementAll(d, existingVotes) ==
    IF existingVotes = <<>> THEN d
    ELSE DecrementAll(decrementVoteCount(d, Head(existingVotes).option_id),
                      Tail(existingVotes))

\* A bug RemovePrevious could have: the old rows deleted, their counts kept.
RemovePrevious_NoDecrement(d, pollId, userId, existingVotes) ==
    removeUserVotes(d, pollId, userId)

\* A bug RemovePrevious could have: the counts decremented, the rows kept.
RemovePrevious_KeepsRows(d, pollId, userId, existingVotes) ==
    DecrementAll(d, existingVotes)

RemovePrevious(d, pollId, userId, existingVotes) ==
    removeUserVotes(DecrementAll(d, existingVotes), pollId, userId)

\* The insert loop: recordVote then incrementVoteCount per id, in order; the
\* first recordVote that throws ends the loop with the earlier writes in place.
RECURSIVE RecordAll(_, _, _, _, _, _, _)
RecordAll(d, ids, pollId, userId, deviceFingerprint, ipAddress, timestamp) ==
    IF ids = <<>> THEN [db |-> d, threw |-> FALSE]
    ELSE IF recordVoteThrows(d, Head(ids)) THEN [db |-> d, threw |-> TRUE]
    ELSE RecordAll(
           incrementVoteCount(
               recordVote(d, pollId, Head(ids), userId, deviceFingerprint,
                          ipAddress, timestamp),
               Head(ids)),
           Tail(ids), pollId, userId, deviceFingerprint, ipAddress, timestamp)

\* What a request that passed canVote writes (lines 333-354).
VoteWrites(d, t, pollId, userId, deviceFingerprint, ipAddress, idsToVote) ==
    LET existingVotes == getUserVotes(d, pollId, userId)
        isChangingVote == Len(existingVotes) > 0
        d1 == recordDeviceFingerprint(d, userId, deviceFingerprint)
        d2 == IF isChangingVote
              THEN RemovePrevious(d1, pollId, userId, existingVotes)
              ELSE d1
    IN RecordAll(d2, idsToVote, pollId, userId, deviceFingerprint, ipAddress, t)

\* The emit of lines 357-368, to the room of the poll: the options and the
\* statistics are read after the insert loop.
\* A bug VoteUpdate could have: the event emitted a second time.
VoteUpdate_Twice(d, pollId) ==
    <<[type |-> "vote-update", poll |-> pollId,
       options |-> getOptions(d, pollId), stats |-> getPollStats(d, pollId)],
      [type |-> "vote-update", poll |-> pollId,
       options |-> getOptions(d, pollId), stats |-> getPollStats(d, pollId)]>>

VoteUpdate(d, pollId) ==
    <<[type |-> "vote-update", poll |-> pollId,
       options |-> getOptions(d, pollId), stats |-> getPollStats(d, pollId)]>>

\* A bug VoteRejected could have: the device recorded before the checks.
VoteRejected_RecordsDevice(d, userId, deviceFingerprint, status, reason) ==
    [db |-> recordDeviceFingerprint(d, userId, deviceFingerprint),
     res |-> [op |-> "vote", status |-> status, reason |-> reason],
     event |-> NoEvent]

\* A request that returns before line 333 writes nothing and emits nothing.
VoteRejected(d, userId, deviceFingerprint, status, reason) ==
    [db |-> d,
     res |-> [op |-> "vote", status |-> status, reason |-> reason],
     event |-> NoEvent]

VoteHandler(d, t, pollId, userId, deviceFingerprint, ipAddress, body) ==
    IF deviceFingerprint = NoFingerprint
    THEN VoteRejected(d, userId, deviceFingerprint, 400, "Device fingerprint required")
    ELSE IF getPoll(d, pollId) = NoPoll
    THEN VoteRejected(d, userId, deviceFingerprint, 404, "Poll not found")
    ELSE LET poll == getPoll(d, pollId)
             isChangingVote == Len(getUserVotes(d, pollId, userId)) > 0
             voteCheck == canVote(d, t, pollId, userId, deviceFingerprint,
                                  ipAddress, isChangingVote)
             w == VoteWrites(d, t, pollId, userId, deviceFingerprint, ipAddress,
                             IdsToVote(poll, body))
         IN IF ~voteCheck.allowed
            THEN VoteRejected(d, userId, deviceFingerprint, 403, voteCheck.reason)
            ELSE IF w.threw
            THEN [db |-> w.db,
                  res |-> [op |-> "vote", status |-> 500,
                           reason |-> "Failed to submit vote"],
                  event |-> NoEvent]
            ELSE [db |-> w.db,
                  res |-> [op |-> "vote", status |-> 200,
                           reason |-> IF isChangingVote
                                      THEN "Vote changed successfully"
                                      ELSE "Vote recorded successfully"],
                  event |-> VoteUpdate(w.db, pollId)]

\* ------------------------------------------------------- POST /api/polls
RECURSIVE CreateOptions(_, _, _)
CreateOptions(d, pollId, options) ==
    IF options = <<>> THEN d
    ELSE CreateOptions(createOption(d, pollId, Head(options)), pollId,
                       Tail(options))

\* The poll id is a fresh uuid: here the next row number of table polls.
CreatePollHandler(d, userId, question, options, pollType) ==
    IF question = "" \/ Len(options) < 2
    THEN [db |-> d,
          res |-> [op |-> "createPoll", status |-> 400,
                   reason |-> "Question and at least 2 options are required"],
          event |-> NoEvent]
    ELSE LET pollId == Len(d.polls) + 1
             d1 == [d EXCEPT !.polls = Append(@,
                       [question |-> question, poll_type |-> pollType,
                        allow_multiple |-> IF pollType = "multiple" THEN 1 ELSE 0,
                        created_by |-> userId])]
         IN [db |-> CreateOptions(d1, pollId, options),
             res |-> [op |-> "createPoll", status |-> 200, reason |-> "none"],
             event |-> NoEvent]

\* ----------------------------------------- POST /api/polls/:pollId/options
\* The emit of the two option handlers, to the room of the poll.
OptionsUpdate(d, pollId) ==
    <<[type |-> "options-update", poll |-> pollId,
       options |-> getOptions(d, pollId)]>>

OptionsRejected(d, op, status, reason) ==
    [db |-> d, res |-> [op |-> op, status |-> status, reason |-> reason],
     event |-> NoEvent]

\* String.prototype.trim over the texts the requests carry: the text of one
\* space is the only one with white space at an end.
Trim(text) == IF text = " " THEN "" ELSE text

AddOptionHandler(d, pollId, userId, optionText) ==
    IF optionText = "" \/ Trim(optionText) = ""
    THEN OptionsRejected(d, "addOption", 400, "Option text is required")
    ELSE IF getPoll(d, pollId) = NoPoll
    THEN OptionsRejected(d, "addOption", 404, "Poll not found")
    ELSE IF getPoll(d, pollId).created_by # userId
    THEN OptionsRejected(d, "addOption", 403, "Only poll creator can add options")
    ELSE LET d1 == createOption(d, pollId, Trim(optionText)) IN
         [db |-> d1,
          res |-> [op |-> "addOption", status |-> 200, reason |-> "none"],
          event |-> OptionsUpdate(d1, pollId)]

\* ------------------------------ DELETE /api/polls/:pollId/options/:optionId
DeleteOptionHandler(d, pollId, userId, optionId) ==
    IF getPoll(d, pollId) = NoPoll
    THEN OptionsRejected(d, "deleteOption", 404, "Poll not found")
    ELSE IF getPoll(d, pollId).created_by # userId
    THEN OptionsRejected(d, "deleteOption", 403,
                         "Only poll creator can delete options")
    ELSE LET d1 == deleteOption(d, optionId) IN
         [db |-> d1,
          res |-> [op |-> "deleteOption", status |-> 200, reason |-> "none"],
          event |-> OptionsUpdate(d1, pollId)]

\* ------------------------------------------------------------ socket.io
\* A bug Deliver could have: io.emit, to every socket, in place of
\* io.to(room).emit.
Deliver_ToAll(events, members) == [c \in DOMAIN members |-> events]

\* io.to(`poll-${pollId}`).emit: each event goes to the sockets that are in
\* the room of its poll when it is emitted.
Deliver(events, members) ==
    [c \in DOMAIN members |-> SelectSeq(events, LAMBDA e : e.poll \in members[c])]

\* A socket event changes the rooms of its socket and nothing else; it
\* delivers nothing.
SocketStep(c, joined) ==
    /\ rooms' = [rooms EXCEPT ![c] = joined]
    /\ delivered' = [x \in Clients |-> <<>>]
    /\ UNCHANGED <<polls, poll_options, votes, device_fingerprints, now, res, event,
                   accepted>>

JoinPollEvent(c, pollId) == SocketStep(c, rooms[c] \cup {pollId})

LeavePollEvent(c, pollId) == SocketStep(c, rooms[c] \ {pollId})

DisconnectEvent(c) == SocketStep(c, {})

\* ------------------------------------------------------------ the steps
\* One request, handled to completion: r is what its handler returns.
Handled(r) ==
    /\ delivered' = Deliver(r.event, rooms)
    /\ UNCHANGED rooms
    /\ polls' = r.db.polls
    /\ poll_options' = r.db.poll_options
    /\ votes' = r.db.votes
    /\ device_fingerprints' = r.db.device_fingerprints
    /\ res' = r.res
    /\ event' = r.event
    /\ UNCHANGED now

VoteReq(pollId, userId, deviceFingerprint, ipAddress, body) ==
    Handled(VoteHandler(Db, now, pollId, userId, deviceFingerprint, ipAddress, body))

CreatePollReq(userId, question, options, pollType) ==
    Handled(CreatePollHandler(Db, userId, question, options, pollType))

AddOptionReq(pollId, userId, optionText) ==
    Handled(AddOptionHandler(Db, pollId, userId, optionText))

GetPollReq(pollId, viewer) ==
    Handled(GetPollHandler(Db, pollId, viewer))

DeleteOptionReq(pollId, userId, optionId) ==
    Handled(DeleteOptionHandler(Db, pollId, userId, optionId))

Tick ==
    /\ now < MaxTicks * TickMs
    /\ now' = now + TickMs
    /\ UNCHANGED <<polls, poll_options, votes, device_fingerprints, res, event,
                   accepted, rooms, delivered>>

\* ------------------------------------------------------------ the inputs
RECURSIVE SeqsUpTo(_, _)
SeqsUpTo(S, n) ==
    IF n = 0 THEN {<<>>}
    ELSE LET shorter == SeqsUpTo(S, n - 1)
         IN shorter \cup {Append(s, x) : s \in {t \in shorter : Len(t) = n - 1}, x \in S}

\* A vote body carries optionId, optionIds or both; an id past the last
\* option row names no option.  The lists are those over option 1 and no
\* option, and the list of the first two options.
VoteBodies ==
    {[optionId |-> x] : x \in OptionIds \cup {NoOptionId}}
    \cup {[optionIds |-> l] : l \in SeqsUpTo({NoOptionId, 1}, MaxIds) \cup {<<1, 2>>}}
    \cup {[optionId |-> 1, optionIds |-> <<1, 2>>]}

\* The fingerprint is tested before the body is read.
BodiesFor(deviceFingerprint) ==
    IF deviceFingerprint = NoFingerprint THEN {[optionId |-> 1]} ELSE VoteBodies

\* The devices a user sends requests from: user 1 has one, every other user
\* has that one and a second.
DevicesOf(userId) == {f \in Fingerprints : f <= userId}

Vote ==
    \E pollId \in PollIds, userId \in Users, ipAddress \in IpAddresses :
     \E deviceFingerprint \in DevicesOf(userId) \cup {NoFingerprint} :
      \E body \in BodiesFor(deviceFingerprint) :
        /\ VoteReq(pollId, userId, deviceFingerprint, ipAddress, body)
        /\ UNCHANGED accepted

\* User 1 creates the polls; every other user owns none.
CreatePoll ==
    \E userId \in {1}, question \in {"", "q"},
       options \in {<<"a">>, <<"a", "b">>}, pollType \in {"single", "multiple"} :
        /\ Len(polls) < MaxPolls
        /\ Len(poll_options) + Len(options) <= MaxOptions
        /\ CreatePollReq(userId, question, options, pollType)
        /\ UNCHANGED accepted

AddOption ==
    \E pollId \in PollIds, userId \in Users, optionText \in {"", " ", "c"} :
        /\ Len(poll_options) < MaxOptions
        /\ AddOptionReq(pollId, userId, optionText)
        /\ UNCHANGED accepted

DeleteOption ==
    \E pollId \in PollIds, userId \in Users, optionId \in OptionIds :
        /\ DeleteOptionReq(pollId, userId, optionId)
        /\ UNCHANGED accepted

\* Anyone reads a poll, with a session or without.
Viewers == Users \cup {NoUser}

GetPoll ==
    \E pollId \in PollIds, viewer \in Viewers :
        /\ GetPollReq(pollId, viewer)
        /\ UNCHANGED accepted

Next == Vote \/ CreatePoll \/ AddOption \/ DeleteOption \/ GetPoll

Spec == Init /\ [][Next]_vars

\* ------------------------------------------- the rate limit, with time
\* One more voter than the ceiling of new votes, each with a device of their
\* own (voter 2 also has voter 1's), all behind one IP address, on one
\* single-choice poll, while time passes.
RateUsers == 1 .. (MaxNewVoteActions + 1)

RateDevicesOf(userId) == IF userId = 2 THEN {1, 2} ELSE {userId}

RateVote ==
    \E userId \in RateUsers :
     \E deviceFingerprint \in RateDevicesOf(userId) \cup {NoFingerprint} :
        /\ VoteReq(1, userId, deviceFingerprint, 1, [optionId |-> 1])
        /\ UNCHANGED accepted

RateCreatePoll ==
    /\ Len(polls) < 1
    /\ CreatePollReq(1, "q", <<"a", "b">>, "single")
    /\ UNCHANGED accepted

InitRate == InitFor(RateUsers, {1})

NextRate == RateVote \/ RateCreatePoll \/ Tick

SpecRate == InitRate /\ [][NextRate]_vars

\* ------------------------------- the accepted new votes of an IP address
\* The same voters behind two IP addresses, at one instant; accepted keeps,
\* per poll and IP address, when the latest new votes (the requests answered
\* "Vote recorded successfully") were accepted: no more of them than one
\* past the ceiling.
LogIps == {1, 2}

Latest(log) == IF Len(log) > MaxNewVoteActions + 1 THEN Tail(log) ELSE log

RecordAccepted(pollId, ipAddress) ==
    accepted' = IF res'.status = 200 /\ res'.reason = "Vote recorded successfully"
                THEN [accepted EXCEPT ![<<pollId, ipAddress>>] =
                          Latest(Append(@, now))]
                ELSE accepted

LogVote ==
    \E userId \in RateUsers, ipAddress \in LogIps :
        /\ VoteReq(1, userId, userId, ipAddress, [optionId |-> 1])
        /\ RecordAccepted(1, ipAddress)

InitLog == InitFor(RateUsers, LogIps)

NextLog == LogVote \/ RateCreatePoll

SpecLog == InitLog /\ [][NextLog]_vars

\* ---------------------------- the accepted vote changes of an IP address
\* Two voters behind one IP address on one single-choice poll, voting and
\* changing between its two options while time passes; accepted keeps when
\* the latest vote changes (the requests answered "Vote changed
\* successfully") were accepted: no more of them than one past the ceiling.
LatestChanges(log) == IF Len(log) > MaxChangeVoteActions + 1 THEN Tail(log) ELSE log

RecordChanged(pollId, ipAddress) ==
    accepted' = IF res'.status = 200 /\ res'.reason = "Vote changed successfully"
                THEN [accepted EXCEPT ![<<pollId, ipAddress>>] =
                          LatestChanges(Append(@, now))]
                ELSE accepted

ChangeVote ==
    \E userId \in Users, optionId \in {1, 2} :
        /\ VoteReq(1, userId, userId, 1, [optionId |-> optionId])
        /\ RecordChanged(1, 1)

NextChange == ChangeVote \/ RateCreatePoll \/ Tick

SpecChange == Init /\ [][NextChange]_vars

\* ------------------------------------------------- polls of two owners
\* One poll more than Spec has, poll i created by user i with two options
\* (the first poll with any question and option texts, blank ones included);
\* each user votes from a device of their own for the first option of any
\* poll, on any poll, and asks for the deletion of those options, naming
\* any poll.
CrossPolls == 1 .. (MaxPolls + 1)

\* Every poll is created with two options: the first option of poll i.
FirstOption(pollId) == 2 * pollId - 1

CrossOptionIds == {FirstOption(p) : p \in CrossPolls}

CrossQuestions(pollId) == IF pollId = 1 THEN {"", " ", "q"} ELSE {"q"}

CrossOptionTexts(pollId) ==
    IF pollId = 1 THEN {<<"a">>, <<"a", "b">>, <<"a", "">>} ELSE {<<"a", "b">>}

CrossCreatePoll ==
    \E question \in CrossQuestions(Len(polls) + 1),
       options \in CrossOptionTexts(Len(polls) + 1) :
        /\ Len(polls) + 1 \in CrossPolls
        /\ CreatePollReq(Len(polls) + 1, question, options, "single")
        /\ UNCHANGED accepted

CrossVote ==
    \E pollId \in CrossPolls, userId \in Users, optionId \in CrossOptionIds :
        /\ VoteReq(pollId, userId, userId, 1, [optionId |-> optionId])
        /\ UNCHANGED accepted

CrossDeleteOption ==
    \E pollId \in CrossPolls, userId \in Users, optionId \in CrossOptionIds :
        /\ DeleteOptionReq(pollId, userId, optionId)
        /\ UNCHANGED accepted

InitCross ==
    /\ polls = <<>>
    /\ poll_options = <<>>
    /\ votes = [k \in CrossPolls \X Users |-> <<>>]
    /\ device_fingerprints = {}
    /\ now = 0
    /\ res = NoResponse
    /\ event = NoEvent
    /\ accepted = [k \in CrossPolls \X IpAddresses |-> <<>>]
    /\ rooms = [c \in Clients |-> {}]
    /\ delivered = [c \in Clients |-> <<>>]

NextCross == CrossVote \/ CrossCreatePoll \/ CrossDeleteOption

SpecCross == InitCross /\ [][NextCross]_vars

\* ------------------------------------- the vote rows of one voter, in time
\* One multiple-choice poll on which the users vote and change their votes,
\* from their devices and from two IP addresses, for one option, for two, or
\* for one and an option that does not exist, while time passes.
RowsIps == {1, 2}

RowsBodies ==
    {[optionIds |-> <<1>>], [optionIds |-> <<1, 2>>],
     [optionIds |-> <<1, NoOptionId>>]}

RowsVote ==
    \E userId \in Users, ipAddress \in RowsIps, body \in RowsBodies :
      \E deviceFingerprint \in DevicesOf(userId) :
        /\ VoteReq(1, userId, deviceFingerprint, ipAddress, body)
        /\ UNCHANGED accepted

RowsCreatePoll ==
    /\ Len(polls) < 1
    /\ CreatePollReq(1, "q", <<"a", "b">>, "multiple")
    /\ UNCHANGED accepted

InitRows == InitFor(Users, RowsIps)

NextRows == RowsVote \/ RowsCreatePoll \/ Tick

SpecRows == InitRows /\ [][NextRows]_vars

\* ----------------------------------------------- the rooms of two polls
\* Two polls, each of its own creator; every user votes for the first option
\* of a poll and its creator deletes that option, while the sockets join and
\* leave the rooms of the polls and disconnect.
RoomCreatePoll ==
    /\ Len(polls) + 1 \in CrossPolls
    /\ CreatePollReq(Len(polls) + 1, "q", <<"a", "b">>, "single")
    /\ UNCHANGED accepted

RoomVote ==
    \E pollId \in CrossPolls, userId \in Users :
        /\ VoteReq(pollId, userId, userId, 1, [optionId |-> FirstOption(pollId)])
        /\ UNCHANGED accepted

RoomDeleteOption ==
    \E pollId \in CrossPolls :
        /\ DeleteOptionReq(pollId, pollId, FirstOption(pollId))
        /\ UNCHANGED accepted

JoinPoll == \E c \in Clients, pollId \in CrossPolls : JoinPollEvent(c, pollId)

LeavePoll == \E c \in Clients, pollId \in CrossPolls : LeavePollEvent(c, pollId)

Disconnect == \E c \in Clients : DisconnectEvent(c)

NextRooms ==
    RoomCreatePoll \/ RoomVote \/ RoomDeleteOption \/ JoinPoll \/ LeavePoll
    \/ Disconnect

SpecRooms == InitCross /\ [][NextRooms]_vars

\* ============================================================ the claims
\* The number of rows of table votes that reference option id.
RowsFor(vs, id) ==
    Cardinality({r \in VoteRows(vs) : Row(vs, r).option_id = id})

\* C1: in every reachable state each option's cached vote_count equals the
\* number of vote rows that reference the option.
C1_CountsMatchLedger ==
    \A id \in DOMAIN poll_options :
        poll_options[id].vote_count = RowsFor(votes, id)

\* A vote request has failed part-way, and a soft-deleted option is counted.
C1_Witness ==
    /\ res.op = "vote" /\ res.status = 500
    /\ \E id \in DOMAIN poll_options :
          poll_options[id].is_deleted = 1 /\ poll_options[id].vote_count >= 1

\* C2: a vote request that passes the eligibility check and then fails (the
\* response 500) leaves the ledger rows and every vote_count as they were.
C2_FailedVoteChangesNothing ==
    [][(res'.op = "vote" /\ res'.status = 500)
        => (votes' = votes /\ poll_options' = poll_options)]_vars

\* C3: a vote request that is denied (400 no fingerprint, 404 unknown poll,
\* 403 device already used or rate limited) leaves the ledger, every
\* vote_count and the device-fingerprint rows unchanged and emits no event.
C3_DeniedVoteChangesNothing ==
    [][(res'.op = "vote" /\ res'.status \in {400, 403, 404})
        => /\ votes' = votes
           /\ poll_options' = poll_options
           /\ device_fingerprints' = device_fingerprints
           /\ event' = NoEvent]_vars

\* A request has been denied as rate limited, after votes and devices were
\* recorded.
C3_Witness ==
    /\ res.op = "vote" /\ res.status = 403 /\ res.reason = "rate limited"
    /\ device_fingerprints # {}

\* C4: a voter with a live vote row on a poll still has one after every
\* later request.
C4_VotedStaysVoted ==
    [][\A k \in DOMAIN votes : Len(votes[k]) > 0 => Len(votes'[k]) > 0]_vars

\* C5: on every poll, the ledger rows that carry one device fingerprint are
\* rows of one user.
C5_OneUserPerDevice ==
    \A r1 \in VoteRows(votes), r2 \in VoteRows(votes) :
        (/\ r1[1][1] = r2[1][1]
         /\ Row(votes, r1).device_fingerprint = Row(votes, r2).device_fingerprint)
        => r1[1][2] = r2[1][2]

\* C6: on a single-choice poll every (poll, voter) pair has at most one live
\* vote row.
C6_SingleChoiceOneRow ==
    \A k \in DOMAIN votes :
        (k[1] \in DOMAIN polls /\ polls[k[1]].allow_multiple = 0)
        => Len(votes[k]) <= 1

\* A voter of a single-choice poll has changed their vote.
C6_Witness ==
    /\ res.op = "vote" /\ res.reason = "Vote changed successfully"
    /\ \E k \in DOMAIN votes :
          /\ polls[k[1]].allow_multiple = 0
          /\ Len(votes[k]) = 1

Recorded == [op |-> "vote", status |-> 200, reason |-> "Vote recorded successfully"]
Changed == [op |-> "vote", status |-> 200, reason |-> "Vote changed successfully"]
RateLimited == [op |-> "vote", status |-> 403, reason |-> "rate limited"]

\* What the vote of option a, accepted as a new vote, and then the change to
\* option b by the same voter leave behind, from the current state.
RoundTrip(p, u, fp, ip, a, b) ==
    LET first == VoteHandler(Db, now, p, u, fp, ip, [optionId |-> a])
        second == VoteHandler(first.db, now, p, u, fp, ip, [optionId |-> b])
    IN [done |-> first.res = Recorded /\ second.res = Changed, db |-> second.db]

\* C7: on a single-choice poll, for distinct options A and B, a voter who
\* votes A and then changes to B ends with exactly one live row, for B; A's
\* vote_count is what it was before the first vote and B's is one higher.
C7_RoundTrip ==
    \A p \in DOMAIN polls, u \in Users, ip \in IpAddresses,
       a \in DOMAIN poll_options, b \in DOMAIN poll_options :
      \A fp \in DevicesOf(u) :
        LET t == RoundTrip(p, u, fp, ip, a, b)
        IN (polls[p].allow_multiple = 0 /\ a # b /\ t.done)
           => /\ Len(t.db.votes[<<p, u>>]) = 1
              /\ t.db.votes[<<p, u>>][1].option_id = b
              /\ t.db.poll_options[a].vote_count = poll_options[a].vote_count
              /\ t.db.poll_options[b].vote_count = poll_options[b].vote_count + 1

\* A vote has been changed on a single-choice poll on which another voter can
\* still vote one option and change to another that already has a vote.
C7_Witness ==
    /\ res = Changed
    /\ \E p \in DOMAIN polls, u \in Users, ip \in IpAddresses,
          a \in DOMAIN poll_options, b \in DOMAIN poll_options :
         \E fp \in DevicesOf(u) :
            /\ polls[p].allow_multiple = 0 /\ a # b
            /\ poll_options[b].vote_count >= 1
            /\ RoundTrip(p, u, fp, ip, a, b).done

\* The voters with a vote row on poll p from ipAddress that is less than five
\* minutes old.
RecentVoters(p, ipAddress) ==
    {r[1][2] : r \in {x \in PollVoteRows(votes, p) :
                        /\ Row(votes, x).ip_address = ipAddress
                        /\ Row(votes, x).voted_at > now - FiveMinutes}}

\* The voters with a vote row on poll p from ipAddress, of any age.
VotersFrom(p, ipAddress) ==
    {r[1][2] : r \in {x \in PollVoteRows(votes, p) :
                        Row(votes, x).ip_address = ipAddress}}

\* C8: with the votes of MaxNewVoteActions distinct voters from one IP
\* address on a poll less than five minutes old, the new vote of a further
\* voter, from a device that has not voted, is denied as rate limited; once
\* no vote of that IP address on the poll is less than five minutes old, it
\* is accepted.
C8_RateLimitBoundary ==
    \A p \in DOMAIN polls, u \in RateUsers :
      \A fp \in RateDevicesOf(u) :
        LET r == VoteHandler(Db, now, p, u, fp, 1, [optionId |-> 1])
        IN (Len(votes[<<p, u>>]) = 0
            /\ \A x \in PollVoteRows(votes, p) :
                 Row(votes, x).device_fingerprint # fp)
           => /\ Cardinality(RecentVoters(p, 1)) >= MaxNewVoteActions
                   => r.res = RateLimited /\ r.db = Db
              /\ RecentVoters(p, 1) = {} => r.res = Recorded

\* The sixth voter was denied as rate limited, and the five votes have since
\* become five minutes old.
C8_Witness ==
    /\ res = RateLimited
    /\ Cardinality(VotersFrom(1, 1)) = MaxNewVoteActions
    /\ RecentVoters(1, 1) = {}
    /\ \E u \in RateUsers : Len(votes[<<1, u>>]) = 0

\* C9: within any five minutes at most MaxNewVoteActions new-vote requests
\* from one IP address on one poll are accepted.
C9_AtMostFiveNewVotes ==
    \A k \in DOMAIN accepted :
        Cardinality({i \in DOMAIN accepted[k] :
                       accepted[k][i] > now - FiveMinutes}) <= MaxNewVoteActions

\* C10: no request adds a ledger row for, or raises the vote_count of, an
\* option that is soft-deleted.
C10_DeletedOptionGetsNoVote ==
    [][\A id \in DOMAIN poll_options :
          poll_options[id].is_deleted = 1
          => /\ poll_options'[id].vote_count <= poll_options[id].vote_count
             /\ RowsFor(votes', id) <= RowsFor(votes, id)]_vars

\* C11: a vote request on poll P leaves every option of another poll, the
\* ledger rows of every other poll and the statistics of every other poll as
\* they were, and the rows it inserts are rows for options of P.
C11_VoteStaysInItsPoll ==
    \A p \in DOMAIN polls, u \in Users, optionId \in CrossOptionIds :
        LET r == VoteHandler(Db, now, p, u, u, 1, [optionId |-> optionId])
        IN /\ \A id \in DOMAIN poll_options :
                poll_options[id].poll_id # p
                => r.db.poll_options[id] = poll_options[id]
           /\ \A q \in DOMAIN polls :
                q # p => /\ \A k \in DOMAIN votes :
                              k[1] = q => r.db.votes[k] = votes[k]
                         /\ getPollStats(r.db, q) = getPollStats(Db, q)
           /\ r.res.status = 200
                => \A i \in DOMAIN r.db.votes[<<p, u>>] :
                      poll_options[r.db.votes[<<p, u>>][i].option_id].poll_id = p

\* C12: a delete request sets the is_deleted flag of an option only when the
\* requester created the poll the option belongs to, whichever poll the
\* request names.
C12_OnlyOwnerDeletes ==
    \A p \in CrossPolls, u \in Users, id \in DOMAIN poll_options :
        LET r == DeleteOptionHandler(Db, p, u, id)
        IN (poll_options[id].is_deleted = 0 /\ r.db.poll_options[id].is_deleted = 1)
           => polls[poll_options[id].poll_id].created_by = u

\* A text with nothing but white space in it.
Blank(text) == Trim(text) = ""

NonBlank(texts) == Cardinality({i \in DOMAIN texts : ~Blank(texts[i])})

\* The option texts a createPoll request has just inserted.
NewOptionTexts ==
    [i \in 1 .. (Len(poll_options') - Len(poll_options)) |->
        poll_options'[Len(poll_options) + i].option_text]

\* C13: a createPoll request either answers 400 and creates no poll and no
\* option, or creates a poll with a non-blank question and at least 2
\* non-blank options.
C13_CreatePollValidates ==
    [][res'.op = "createPoll"
        => \/ /\ res'.status = 400
              /\ polls' = polls
              /\ poll_options' = poll_options
           \/ /\ Len(polls') = Len(polls) + 1
              /\ ~Blank(polls'[Len(polls')].question)
              /\ NonBlank(NewOptionTexts) >= 2]_vars

\* The options of poll p as they are stored, in id order, without the
\* soft-deleted ones.
StoredOptions(opts, p) ==
    SelectSeq([i \in DOMAIN opts |-> [id |-> i, row |-> opts[i]]],
              LAMBDA o : o.row.poll_id = p /\ o.row.is_deleted = 0)

\* The statistics of poll p as the ledger vs gives them.
LedgerStats(vs, p) ==
    [unique_voters |-> Cardinality({k \in DOMAIN vs : k[1] = p /\ Len(vs[k]) > 0}),
     total_votes |-> Cardinality(PollVoteRows(vs, p)),
     unique_devices |->
         Cardinality({f \in Fingerprints :
                        \E r \in PollVoteRows(vs, p) :
                           Row(vs, r).device_fingerprint = f})]

\* C14: a vote request that succeeds emits exactly one vote-update event,
\* whose options and statistics are those stored once the request's writes
\* are done; a vote request that is denied or fails emits nothing, and no
\* other request emits a vote-update event.
C14_VoteUpdateAfterWrites ==
    [][/\ (res'.op = "vote" /\ res'.status = 200)
           => /\ Len(event') = 1
              /\ event'[1].type = "vote-update"
              /\ event'[1].poll \in DOMAIN polls'
              /\ event'[1].options = StoredOptions(poll_options', event'[1].poll)
              /\ event'[1].stats = LedgerStats(votes', event'[1].poll)
       /\ (res'.op = "vote" /\ res'.status # 200) => event' = <<>>
       /\ (\E i \in DOMAIN event' : event'[i].type = "vote-update")
           => (res'.op = "vote" /\ res'.status = 200)]_vars

\* A vote change has been announced on a poll that has a soft-deleted option,
\* votes of two voters and a second vote of one of them.
C14_Witness ==
    /\ res = Changed
    /\ Len(event) = 1
    /\ event[1].stats.unique_voters = 2
    /\ event[1].stats.total_votes >= 3
    /\ \E id \in DOMAIN poll_options : poll_options[id].is_deleted = 1

\* C15: a poll read changes no table and emits nothing, and the same read
\* made again right after it returns the same poll, options, hasVoted,
\* votedOptionIds and stats.
C15_ReadChangesNothing ==
    [][res'.op = "getPoll"
        => /\ Db' = Db
           /\ event' = NoEvent
           /\ \E p \in PollIds, v \in Viewers :
                 /\ res' = GetPollHandler(Db, p, v).res
                 /\ GetPollHandler(Db', p, v).res = res']_vars

\* A voter with two vote rows has read the poll.
C15_Witness ==
    /\ res.op = "getPoll" /\ res.status = 200
    /\ res.hasVoted
    /\ Len(res.votedOptionIds) = 2
    /\ res.stats.uniqueVoters = 2

\* The vote requests two clients send at the same time: a voter, one of
\* their devices and a choice.
PairBodies == {[optionId |-> 1], [optionId |-> 2], [optionIds |-> <<1, 2>>]}

PairRequests ==
    UNION {{[userId |-> u, deviceFingerprint |-> f, body |-> b] :
               f \in DevicesOf(u), b \in PairBodies} : u \in Users}

\* The server takes one request off the event loop and runs its handler to
\* the end before the next: what requests a and then b leave on poll p.
Serial(p, a, b) ==
    LET first == VoteHandler(Db, now, p, a.userId, a.deviceFingerprint, 1, a.body)
        second == VoteHandler(first.db, now, p, b.userId, b.deviceFingerprint, 1,
                              b.body)
    IN [first |-> first, second |-> second]

\* C16: of two vote requests that arrive together on one poll, handled one
\* after the other in either order, no increment or decrement is lost (every
\* option's vote_count moves by as much as its ledger rows do), and two
\* requests of one voter who had no vote never both leave rows: the second
\* is not accepted as a new vote, and the voter's rows are those of one
\* request alone.
C16_ConcurrentVotesSerialize ==
    \A p \in DOMAIN polls, a \in PairRequests, b \in PairRequests :
        LET t == Serial(p, a, b)
            k == <<p, a.userId>>
        IN /\ (t.first.res.status = 200 /\ t.second.res.status = 200)
              => \A id \in DOMAIN poll_options :
                    t.second.db.poll_options[id].vote_count
                        - poll_options[id].vote_count
                    = RowsFor(t.second.db.votes, id) - RowsFor(votes, id)
           /\ (a.userId = b.userId /\ Len(votes[k]) = 0
               /\ Len(t.first.db.votes[k]) > 0)
              => /\ t.second.res # Recorded
                 /\ \/ t.second.db.votes[k] = t.first.db.votes[k]
                    \/ \A i \in DOMAIN t.second.db.votes[k] :
                          /\ t.second.db.votes[k][i].device_fingerprint
                               = b.deviceFingerprint
                          /\ Len(t.second.db.votes[k])
                               <= Len(IdsToVote(polls[p], b.body))

\* Two voters have voted for the same option, one after the other, and two
\* more requests of theirs can still be accepted together.
C16_Witness ==
    /\ res = Recorded
    /\ \E id \in DOMAIN poll_options :
          /\ poll_options[id].vote_count = 2
          /\ \A u \in Users : \E p \in DOMAIN polls :
                \E i \in DOMAIN votes[<<p, u>>] :
                    votes[<<p, u>>][i].option_id = id
    /\ \E p \in DOMAIN polls, a \in PairRequests, b \in PairRequests :
          /\ a.userId # b.userId
          /\ Serial(p, a, b).first.res = Changed
          /\ Serial(p, a, b).second.res = Changed

UserAlreadyVoted == [op |-> "vote", status |-> 403, reason |-> "user already voted"]

\* C17: a vote request of one voter leaves the ledger rows of every other
\* voter as they were, and the request of a voter with no vote row on the
\* poll is never denied as "user already voted".
C17_OtherVotersUntouched ==
    \A p \in DOMAIN polls, u \in Users, body \in VoteBodies :
      \A fp \in DevicesOf(u) :
        LET r == VoteHandler(Db, now, p, u, fp, 1, body)
        IN /\ \A k \in DOMAIN votes :
                k # <<p, u>> => r.db.votes[k] = votes[k]
           /\ Len(votes[<<p, u>>]) = 0 => r.res # UserAlreadyVoted

\* The second voter has changed their vote on a poll the first voter has
\* voted on.
C17_Witness ==
    /\ res = Changed
    /\ \E p \in DOMAIN polls :
          /\ Len(votes[<<p, 1>>]) > 0
          /\ Len(votes[<<p, 2>>]) > 0
          /\ votes[<<p, 2>>][1].device_fingerprint = 2

DeviceUsed == [op |-> "vote", status |-> 403, reason |-> "device already used"]

\* C18: the vote request of a user with no vote row on the poll, from a
\* device fingerprint that some vote row of the poll carries, is denied as
\* "device already used", whatever the rate check would say, and writes
\* nothing.
C18_UsedDeviceDenied ==
    \A p \in DOMAIN polls, u \in RateUsers :
      \A fp \in RateDevicesOf(u) :
        LET r == VoteHandler(Db, now, p, u, fp, 1, [optionId |-> 1])
        IN (Len(votes[<<p, u>>]) = 0
            /\ \E x \in PollVoteRows(votes, p) :
                 Row(votes, x).device_fingerprint = fp)
           => r.res = DeviceUsed /\ r.db = Db

\* A new voter was denied for their device while the rate ceiling of new
\* votes was reached.
C18_Witness ==
    /\ res = DeviceUsed
    /\ Cardinality(RecentVoters(1, 1)) >= MaxNewVoteActions
    /\ \E u \in RateUsers : Len(votes[<<1, u>>]) = 0

\* C19: within any five minutes at most MaxChangeVoteActions vote-change
\* requests from one IP address on one poll are accepted.
C19_AtMostTenChanges ==
    \A k \in DOMAIN accepted :
        Cardinality({i \in DOMAIN accepted[k] :
                       accepted[k][i] > now - FiveMinutes}) <= MaxChangeVoteActions

\* C20: every vote request that is answered with success leaves its voter
\* with at least one vote row on the poll.
C20_SuccessLeavesAVote ==
    \A p \in DOMAIN polls, u \in Users, body \in VoteBodies :
      \A fp \in DevicesOf(u) :
        LET r == VoteHandler(Db, now, p, u, fp, 1, body)
        IN r.res.status = 200 => Len(r.db.votes[<<p, u>>]) >= 1

\* C21: a vote request on a single-choice poll whose optionIds list names
\* more than one option is not answered with success and changes no table.
C21_ExtrasRejected ==
    \A p \in DOMAIN polls, u \in Users, body \in VoteBodies :
      \A fp \in DevicesOf(u) :
        LET r == VoteHandler(Db, now, p, u, fp, 1, body)
        IN (/\ polls[p].allow_multiple = 0
            /\ "optionIds" \in DOMAIN body
            /\ Len(body.optionIds) > 1)
           => r.res.status # 200 /\ r.db = Db

\* The elements of a list, and how many rows of a list of vote rows
\* reference option id.
Range(list) == {list[i] : i \in DOMAIN list}

RowsOf(rows, id) == Cardinality({i \in DOMAIN rows : rows[i].option_id = id})

\* C22: after a vote change that succeeds on a multiple-choice poll the
\* voter's rows are one row per option id of the chosen list, and every
\* option's vote_count has gone down by the voter's previous rows for it and
\* up by one if it is chosen.
C22_ChangeReplacesRows ==
    \A p \in DOMAIN polls, u \in Users, body \in VoteBodies :
      \A fp \in DevicesOf(u) :
        LET r == VoteHandler(Db, now, p, u, fp, 1, body)
            chosen == Range(IdsToVote(polls[p], body))
            rows == r.db.votes[<<p, u>>]
        IN (polls[p].allow_multiple = 1 /\ r.res = Changed)
           => /\ \A id \in chosen : RowsOf(rows, id) = 1
              /\ \A i \in DOMAIN rows : rows[i].option_id \in chosen
              /\ \A id \in DOMAIN poll_options :
                    r.db.poll_options[id].vote_count
                    = poll_options[id].vote_count - RowsOf(votes[<<p, u>>], id)
                      + (IF id \in chosen THEN 1 ELSE 0)

\* C23: an add or delete request of a user who did not create the poll is
\* answered 403, one for a poll that does not exist and a delete request
\* for an option that does not exist are answered 404, and each of them
\* leaves the tables as they were and emits no event.
C23_OptionRequestsFail ==
    \A p \in PollIds, u \in Users, id \in OptionIds :
        LET a == AddOptionHandler(Db, p, u, "c")
            r == DeleteOptionHandler(Db, p, u, id)
            Failed(x, status) ==
                x.res.status = status /\ x.db = Db /\ x.event = NoEvent
        IN /\ getPoll(Db, p) = NoPoll => Failed(a, 404) /\ Failed(r, 404)
           /\ (getPoll(Db, p) # NoPoll /\ getPoll(Db, p).created_by # u)
              => Failed(a, 403) /\ Failed(r, 403)
           /\ (getPoll(Db, p) # NoPoll /\ getPoll(Db, p).created_by = u
               /\ id \notin DOMAIN poll_options)
              => Failed(r, 404)

\* C24: a delete-option request deletes no vote row and no option row,
\* changes no vote_count and leaves the statistics of every poll as they
\* were; after it every vote row still references an option row.
C24_SoftDeleteKeepsLedger ==
    [][res'.op = "deleteOption"
        => /\ votes' = votes
           /\ Len(poll_options') = Len(poll_options)
           /\ \A id \in DOMAIN poll_options :
                 poll_options'[id].vote_count = poll_options[id].vote_count
           /\ \A p \in DOMAIN polls :
                 LedgerStats(votes', p) = LedgerStats(votes, p)
           /\ \A r \in VoteRows(votes') :
                 Row(votes', r).option_id \in DOMAIN poll_options']_vars

\* An option that has votes has been soft-deleted.
C24_Witness ==
    /\ res.op = "deleteOption" /\ res.status = 200
    /\ \E id \in DOMAIN poll_options :
          /\ poll_options[id].is_deleted = 1
          /\ poll_options[id].vote_count >= 1
          /\ RowsFor(votes, id) >= 1

\* The vote_count a poll read shows for option id.
Shown(read, id) ==
    LET o == CHOOSE x \in Range(read.options) : x.id = id IN o.row.vote_count

\* Voter u votes option a of poll p and then changes to option b, reading
\* the poll after each.
VoteReadChangeRead(p, u, a, b) ==
    LET first == VoteHandler(Db, now, p, u, u, 1, [optionId |-> a])
        read1 == GetPollHandler(first.db, p, u)
        second == VoteHandler(read1.db, now, p, u, u, 1, [optionId |-> b])
        read2 == GetPollHandler(second.db, p, u)
    IN [first |-> first.res, read1 |-> read1.res,
        second |-> second.res, read2 |-> read2.res]

\* A single-choice poll with options 1 and 2 and no vote.
Fresh(p) ==
    /\ p \in DOMAIN polls /\ polls[p].allow_multiple = 0
    /\ \A u \in Users : votes[<<p, u>>] = <<>>
    /\ \A id \in {1, 2} :
          /\ id \in DOMAIN poll_options
          /\ poll_options[id] = [poll_options[id] EXCEPT
                                    !.poll_id = p, !.vote_count = 0, !.is_deleted = 0]

\* C25: a poll read shows hasVoted exactly when the viewer has a vote row on
\* the poll, and votedOptionIds are the option ids of those rows; on a fresh
\* single-choice poll, after a voter votes option 1 the read shows 1 for
\* option 1, 0 for option 2, hasVoted and votedOptionIds <<1>>, and after
\* the voter changes to option 2 it shows 0 and 1.
C25_ReadShowsVotes ==
    /\ \A p \in DOMAIN polls, v \in Viewers :
          LET read == GetPollHandler(Db, p, v).res
              rows == IF v = NoUser THEN <<>> ELSE votes[<<p, v>>]
          IN /\ read.hasVoted <=> Len(rows) > 0
             /\ read.votedOptionIds = [i \in DOMAIN rows |-> rows[i].option_id]
    /\ \A p \in PollIds, u \in Users :
          Fresh(p)
          => LET t == VoteReadChangeRead(p, u, 1, 2)
             IN /\ t.first = Recorded
                /\ Shown(t.read1, 1) = 1 /\ Shown(t.read1, 2) = 0
                /\ t.read1.hasVoted /\ t.read1.votedOptionIds = <<1>>
                /\ t.second = Changed
                /\ Shown(t.read2, 1) = 0 /\ Shown(t.read2, 2) = 1

\* A voter has read, after changing their vote, a single-choice poll that was
\* fresh before they voted.
C25_Witness ==
    /\ res.op = "getPoll" /\ res.status = 200
    /\ res.poll.allow_multiple = 0
    /\ res.hasVoted /\ res.votedOptionIds = <<2>>
    /\ Shown(res, 1) = 0 /\ Shown(res, 2) = 1
    /\ res.stats.totalVotes = 1

\* C26: every event a step delivers to a socket is an event the step's
\* request emitted for a poll whose room the socket is in when the request
\* is handled: a socket that never joined that room, or left it before,
\* gets none, and a socket in the room of one poll gets no event of another.
C26_DeliveredToMembersOnly ==
    [][\A c \in Clients : \A i \in DOMAIN delivered'[c] :
          /\ delivered'[c][i] \in Range(event')
          /\ delivered'[c][i].type \in {"vote-update", "options-update"}
          /\ delivered'[c][i].poll \in rooms[c]
          /\ delivered'[c][i].poll \in rooms'[c]]_vars

\* An event of poll 1 has gone to the first socket, which is in the room of
\* poll 1, and not to the second, which is in the room of poll 2 alone.
C26_Witness ==
    /\ rooms[1] = {1}
    /\ rooms[2] = {2}
    /\ delivered[1] # <<>>
    /\ delivered[1][1].poll = 1
    /\ delivered[2] = <<>>

\* C27: all vote rows of one (poll, voter) pair carry the same voted_at, the
\* same ip_address and the same device_fingerprint.
C27_RowsOfOneAction ==
    \A k \in DOMAIN votes : \A i \in DOMAIN votes[k], j \in DOMAIN votes[k] :
        /\ votes[k][i].voted_at = votes[k][j].voted_at
        /\ votes[k][i].ip_address = votes[k][j].ip_address
        /\ votes[k][i].device_fingerprint = votes[k][j].device_fingerprint

\* A voter who voted earlier, from another device and another IP address,
\* has changed to two options.
C27_Witness ==
    /\ res = Changed
    /\ now > 0
    /\ (<<2, 1>> \in device_fingerprints /\ <<2, 2>> \in device_fingerprints)
    /\ Len(votes[<<1, 2>>]) = 2
    /\ votes[<<1, 2>>][1].voted_at = now
    /\ votes[<<1, 2>>][1].ip_address = 2
    /\ Len(votes[<<1, 1>>]) = 1
    /\ votes[<<1, 1>>][1].voted_at < now

\* C28: no vote request is denied as "user already voted": the request of a
\* user who has vote rows on the poll passes canVote as a vote change, so it
\* is denied neither for the user nor for the device, and when it succeeds
\* it is answered as a change.
C28_AlreadyVotedUnreachable ==
    /\ res # UserAlreadyVoted
    /\ \A p \in DOMAIN polls, u \in Users, body \in VoteBodies :
        \A fp \in DevicesOf(u) :
          LET r == VoteHandler(Db, now, p, u, fp, 1, body)
          IN /\ r.res # UserAlreadyVoted
             /\ Len(votes[<<p, u>>]) > 0
                  => /\ r.res # DeviceUsed
                     /\ r.res.status = 200 => r.res = Changed

\* A user with a vote has voted again, from the device of another voter.
C28_Witness ==
    /\ res = Changed
    /\ \E p \in DOMAIN polls :
          /\ Len(votes[<<p, 1>>]) > 0
          /\ Len(votes[<<p, 2>>]) > 0
          /\ votes[<<p, 2>>][1].device_fingerprint
               = votes[<<p, 1>>][1].device_fingerprint

\* C29: the statistics of every poll satisfy unique_devices <= unique_voters
\* <= total_votes, and those of a single-choice poll total_votes =
\* unique_voters.
C29_StatsRelations ==
    \A p \in DOMAIN polls :
        LET stats == getPollStats(Db, p)
        IN /\ stats.unique_devices <= stats.unique_voters
           /\ stats.unique_voters <= stats.total_votes
           /\ polls[p].allow_multiple = 0 => stats.total_votes = stats.unique_voters

\* A multiple-choice poll has three votes of two voters from one device.
C29_Witness ==
    \E p \in DOMAIN polls :
        /\ polls[p].allow_multiple = 1
        /\ getPollStats(Db, p) =
             [unique_voters |-> 2, total_votes |-> 3, unique_devices |-> 1]
====
